---------------------------- MODULE Spec2Model ----------------------------
(***************************************************************************)
(* Model of the benefit matching engine (location lookup, location         *)
(* filter, requirement evaluator, match scorer, match pipeline, grouper).  *)
(*                                                                         *)
(* Conventions.  A JavaScript value that may be undefined/null is an       *)
(* optional: the empty set when absent, the singleton {v} when present.    *)
(* Arrays are sequences.  An object with ordered keys (the grouper's       *)
(* result) is a sequence of [key, value] entries in insertion order.       *)
(***************************************************************************)
EXTENDS Integers, Sequences, FiniteSets, TLC

VARIABLES
    profile,            \* VeteranProfile given to the engine
    benefits,           \* the catalog (Benefit[]) given to the engine
    called,             \* name of the function applied last ("none" at start)
    req,                \* optional: the requirement last given to checkRequirement
    checked,            \* optional: {met, needsInfo} returned by checkRequirement
    benefit,            \* optional: the benefit last given to calculateMatch
    match,              \* optional: the record returned by calculateMatch
    locationBenefits,   \* the sequence returned by getBenefitsForLocation
    matches,            \* the sequence returned by matchBenefits
    groups              \* the mapping returned by groupBenefitsByCategory

vars == <<profile, benefits, called, req, checked, benefit, match,
          locationBenefits, matches, groups>>

----------------------------------------------------------------------------
(* Optional values and array helpers; Array.prototype.filter is SelectSeq   *)

Undefined == {}
Null == {}
Some(v) == {v}
The(o) == CHOOSE v \in o : TRUE

Range(s) == {s[i] : i \in 1..Len(s)}

\* arr.includes(x) where x may be undefined: no string array holds undefined
Includes(arr, o) == o # Undefined /\ The(o) \in Range(arr)

\* all sequences over S of length 0..n
SeqsUpTo(S, n) == UNION {[1..k -> S] : k \in 0..n}

----------------------------------------------------------------------------
(* lookupZipCode                                                           *)

\* own keys of the sampleData object literal
SampleZips == {"78701", "78205", "77001"}

Location(zip, city, county, countyFips, state, stateCode) ==
    [zip |-> Some(zip), city |-> Some(city), county |-> Some(county),
     countyFips |-> Some(countyFips), state |-> Some(state),
     stateCode |-> Some(stateCode)]

sampleData(zip) ==
    CASE zip = "78701" -> Location("78701", "Austin", "Travis County", "48453", "Texas", "TX")
      [] zip = "78205" -> Location("78205", "San Antonio", "Bexar County", "48029", "Texas", "TX")
      [] zip = "77001" -> Location("77001", "Houston", "Harris County", "48201", "Texas", "TX")

\* sampleData is a plain object literal, so sampleData[zip] also finds the
\* members it inherits from Object.prototype.  Those are functions/objects:
\* truthy, and without any of the ZipLocation fields.
ObjectPrototypeKeys ==
    {"constructor", "toString", "valueOf", "hasOwnProperty", "isPrototypeOf",
     "propertyIsEnumerable", "toLocaleString", "__proto__"}

InheritedMember ==
    [zip |-> Undefined, city |-> Undefined, county |-> Undefined,
     countyFips |-> Undefined, state |-> Undefined, stateCode |-> Undefined]

\* return sampleData[zip] || null
lookupZipCode(zip) ==
    IF zip \in SampleZips THEN Some(sampleData(zip))
    ELSE IF zip \in ObjectPrototypeKeys THEN Some(InheritedMember)
    ELSE Null

----------------------------------------------------------------------------
(* getBenefitsForLocation                                                  *)

\* String(x) inside a template literal
TemplateString(o) == IF o = Undefined THEN "undefined" ELSE The(o)

\* `${location.city}, ${location.stateCode}` on the values the model uses
cityKey(location) ==
    LET c == TemplateString(location.city)
        s == TemplateString(location.stateCode)
    IN  CASE c = "Austin" /\ s = "TX" -> "Austin, TX"
          [] c = "San Antonio" /\ s = "TX" -> "San Antonio, TX"
          [] c = "Houston" /\ s = "TX" -> "Houston, TX"
          [] c = "undefined" /\ s = "undefined" -> "undefined, undefined"

\* a filter that forgets the postal-code dimension
CoversLocationIgnoringZipCodes(b, location, zipCode) ==
    IF b.level = "federal" THEN TRUE
    ELSE IF Len(b.coverage.states) > 0
            /\ ~Includes(b.coverage.states, location.stateCode) THEN FALSE
    ELSE IF Len(b.coverage.counties) > 0
            /\ ~Includes(b.coverage.counties, location.countyFips) THEN FALSE
    ELSE IF Len(b.coverage.cities) > 0
            /\ ~Includes(b.coverage.cities, Some(cityKey(location))) THEN FALSE
    ELSE TRUE

\* the callback of the second filter, lines 33-61
CoversLocation(b, location, zipCode) ==
    IF b.level = "federal" THEN TRUE
    ELSE IF Len(b.coverage.states) > 0
            /\ ~Includes(b.coverage.states, location.stateCode) THEN FALSE
    ELSE IF Len(b.coverage.counties) > 0
            /\ ~Includes(b.coverage.counties, location.countyFips) THEN FALSE
    ELSE IF Len(b.coverage.cities) > 0
            /\ ~Includes(b.coverage.cities, Some(cityKey(location))) THEN FALSE
    ELSE IF Len(b.coverage.zipCodes) > 0
            /\ ~Includes(b.coverage.zipCodes, Some(zipCode)) THEN FALSE
    ELSE TRUE

IsFederal(b) == b.level = "federal"

getBenefitsForLocation(zipCode, allBenefits) ==
    LET location == lookupZipCode(zipCode)
    IN  IF location = Null
        THEN SelectSeq(allBenefits, IsFederal)
        ELSE LET Keep(b) == CoversLocation(b, The(location), zipCode)
             IN  SelectSeq(allBenefits, Keep)

----------------------------------------------------------------------------
(* checkRequirement                                                        *)

\* the number of days the code takes a year of service to be (line 169)
DaysPerYear == 365

Result(met, needsInfo) == [met |-> met, needsInfo |-> needsInfo]

\* `met` is an optional BOOLEAN: Null, Some(TRUE) or Some(FALSE)
NeedsInfo == Result(Null, TRUE)

\* a disability check with the comparison the wrong way round
checkDisabilityReversed(p, criteria) ==
    IF p.disabilityRating = Undefined THEN NeedsInfo
    ELSE IF criteria.minDisabilityRating # Undefined
    THEN Result(Some(The(p.disabilityRating) <= The(criteria.minDisabilityRating)), FALSE)
    ELSE NeedsInfo

\* a disability check that tests the rating and the minimum for truthiness,
\* so that 0 counts as absent
checkDisabilityZeroAbsent(p, criteria) ==
    IF p.disabilityRating \in {Undefined, Some(0)} THEN NeedsInfo
    ELSE IF criteria.minDisabilityRating \notin {Undefined, Some(0)}
    THEN Result(Some(The(p.disabilityRating) >= The(criteria.minDisabilityRating)), FALSE)
    ELSE NeedsInfo

\* case 'disability', lines 149-159 (break leads to the final return)
checkDisability(p, criteria) ==
    IF p.disabilityRating = Undefined THEN NeedsInfo
    ELSE IF criteria.minDisabilityRating # Undefined
    THEN Result(Some(The(p.disabilityRating) >= The(criteria.minDisabilityRating)), FALSE)
    ELSE NeedsInfo

\* a service check that reads absent years of service as 0
checkServiceAbsentYearsAsZero(p, criteria) ==
    IF criteria.dischargeTypes # Undefined /\ p.dischargeStatus # Undefined
    THEN Result(Some(Includes(The(criteria.dischargeTypes), p.dischargeStatus)), FALSE)
    ELSE IF criteria.minServiceDays # Undefined
    THEN LET years == IF p.yearsOfService = Undefined THEN 0 ELSE The(p.yearsOfService)
         IN  Result(Some(years * DaysPerYear >= The(criteria.minServiceDays)), FALSE)
    ELSE NeedsInfo

\* a service check that wants the discharge and the length of service both
\* to pass when both are given
checkServiceBothMustHold(p, criteria) ==
    IF criteria.dischargeTypes # Undefined /\ p.dischargeStatus # Undefined
    THEN LET discharge == Includes(The(criteria.dischargeTypes), p.dischargeStatus)
             days == IF criteria.minServiceDays # Undefined /\ p.yearsOfService # Undefined
                     THEN The(p.yearsOfService) * DaysPerYear >= The(criteria.minServiceDays)
                     ELSE TRUE
         IN  Result(Some(discharge /\ days), FALSE)
    ELSE IF criteria.minServiceDays # Undefined /\ p.yearsOfService # Undefined
    THEN LET serviceDays == The(p.yearsOfService) * DaysPerYear
         IN  Result(Some(serviceDays >= The(criteria.minServiceDays)), FALSE)
    ELSE NeedsInfo

\* case 'service', lines 161-175
checkService(p, criteria) ==
    IF criteria.dischargeTypes # Undefined /\ p.dischargeStatus # Undefined
    THEN Result(Some(Includes(The(criteria.dischargeTypes), p.dischargeStatus)), FALSE)
    ELSE IF criteria.minServiceDays # Undefined /\ p.yearsOfService # Undefined
    THEN LET serviceDays == The(p.yearsOfService) * DaysPerYear
         IN  Result(Some(serviceDays >= The(criteria.minServiceDays)), FALSE)
    ELSE NeedsInfo

\* an income check that takes a known income level as meeting the requirement
checkIncomeKnownLevelMet(p, criteria) ==
    IF p.incomeLevel = Undefined THEN NeedsInfo
    ELSE Result(Some(TRUE), FALSE)

\* case 'income', lines 177-182
checkIncome(p, criteria) ==
    IF p.incomeLevel = Undefined THEN NeedsInfo
    ELSE NeedsInfo

\* a family check that takes a profile without a spouse as not known
checkFamilyNoSpouseNotKnown(p, criteria) ==
    IF criteria.requiresSpouse = Some(TRUE) /\ p.hasSpouse # Some(TRUE)
    THEN NeedsInfo
    ELSE IF criteria.requiresSpouse = Some(TRUE)
    THEN Result(Some(TRUE), FALSE)
    ELSE NeedsInfo

\* case 'family', lines 184-191; criteria.requiresSpouse is tested for
\* truthiness, so false counts as not set
checkFamily(p, criteria) ==
    IF criteria.requiresSpouse = Some(TRUE) /\ p.hasSpouse = Undefined
    THEN NeedsInfo
    ELSE IF criteria.requiresSpouse = Some(TRUE)
    THEN Result(Some(p.hasSpouse = Some(TRUE)), FALSE)
    ELSE NeedsInfo

\* an evaluator whose default case falls into the disability check
checkRequirementDefaultIsDisability(p, r) ==
    IF r.criteria = Undefined THEN NeedsInfo
    ELSE LET criteria == The(r.criteria) IN
      CASE r.type = "service" -> checkService(p, criteria)
        [] r.type = "income" -> checkIncome(p, criteria)
        [] r.type = "family" -> checkFamily(p, criteria)
        [] OTHER -> checkDisability(p, criteria)

checkRequirement(p, r) ==
    IF r.criteria = Undefined THEN NeedsInfo
    ELSE LET criteria == The(r.criteria) IN
      CASE r.type = "disability" -> checkDisability(p, criteria)
        [] r.type = "service" -> checkService(p, criteria)
        [] r.type = "income" -> checkIncome(p, criteria)
        [] r.type = "family" -> checkFamily(p, criteria)
        [] OTHER -> NeedsInfo

----------------------------------------------------------------------------
(* Number arithmetic of line 116.  A Number is an IEEE-754 double: here a  *)
(* significand of 53 bits (a sequence of 0/1, most significant first) and  *)
(* an exponent e, standing for significand * 2^e; zero is the empty        *)
(* significand.  Division and multiplication round to nearest, ties to     *)
(* even; Math.round rounds to the nearest integer, ties towards +Infinity. *)

SignificandBits == 53

RECURSIVE Pow2(_)
Pow2(k) == IF k = 0 THEN 1 ELSE 2 * Pow2(k - 1)

\* the value of a short sequence of bits
RECURSIVE BitsToNat(_)
BitsToNat(bits) ==
    IF bits = <<>> THEN 0
    ELSE 2 * BitsToNat(SubSeq(bits, 1, Len(bits) - 1)) + bits[Len(bits)]

\* n as exactly w bits
NatToBits(n, w) == [i \in 1..w |-> (n \div Pow2(w - i)) % 2]

Zeros(k) == [i \in 1..k |-> 0]

StripLeadingZeros(bits) ==
    IF \A i \in 1..Len(bits) : bits[i] = 0 THEN <<>>
    ELSE LET first == CHOOSE i \in 1..Len(bits) :
                          bits[i] = 1 /\ \A j \in 1..(i - 1) : bits[j] = 0
         IN  SubSeq(bits, first, Len(bits))

\* bits + 1, one bit longer when the carry runs out of the top
Increment(bits) ==
    IF \A i \in 1..Len(bits) : bits[i] = 1 THEN <<1>> \o Zeros(Len(bits))
    ELSE LET last == CHOOSE i \in 1..Len(bits) :
                         bits[i] = 0 /\ \A j \in (i + 1)..Len(bits) : bits[j] = 1
         IN  SubSeq(bits, 1, last - 1) \o <<1>> \o Zeros(Len(bits) - last)

\* the double nearest to bits * 2^exp, given whether the discarded tail is
\* above, at or below half a unit of the last kept bit ("up", "tie", "down")
RoundToDouble(bits, exp, tail) ==
    LET up == tail = "up" \/ (tail = "tie" /\ bits[Len(bits)] = 1)
        inc == IF up THEN Increment(bits) ELSE bits
    IN  IF Len(inc) > SignificandBits
        THEN [mant |-> SubSeq(inc, 1, SignificandBits), exp |-> exp + 1]
        ELSE [mant |-> inc, exp |-> exp]

\* the least s with n * 2^s >= d
RECURSIVE ShiftTo(_, _)
ShiftTo(n, d) == IF n >= d THEN 0 ELSE 1 + ShiftTo(2 * n, d)

\* 2^j modulo d, by repeated squaring
RECURSIVE Pow2Mod(_, _)
Pow2Mod(j, d) ==
    IF j = 0 THEN 1 % d
    ELSE LET h == Pow2Mod(j \div 2, d)
         IN  (((h * h) % d) * (IF j % 2 = 1 THEN 2 ELSE 1)) % d

\* long division of n / d, d <= n < 2d: the k quotient bits after the
\* leading 1, and the remainder left after them (n * 2^k modulo d)
DivBits(n, d, k) ==
    LET Rem(j) == (n * Pow2Mod(j, d)) % d
    IN  [bits |-> [j \in 1..k |-> IF 2 * Rem(j - 1) >= d THEN 1 ELSE 0],
         rem |-> Rem(k)]

\* n / d as a Number, for integers 0 <= n <= d, d > 0
NumberDivide(n, d) ==
    IF n = 0 THEN [mant |-> <<>>, exp |-> 0]
    ELSE LET s == ShiftTo(n, d)
             q == DivBits(n * Pow2(s), d, SignificandBits - 1)
             tail == IF 2 * q.rem > d THEN "up"
                     ELSE IF 2 * q.rem = d THEN "tie" ELSE "down"
         IN  RoundToDouble(<<1>> \o q.bits, 0 - s - (SignificandBits - 1), tail)

\* bits * k exactly, computed on limbs of 16 bits, least significant limb
\* first; k is a small positive integer
MulBits(bits, k) ==
    LET LimbBits == 16
        n == (Len(bits) + LimbBits - 1) \div LimbBits     \* number of limbs
        padded == Zeros(n * LimbBits - Len(bits)) \o bits
        Limb(j) == BitsToNat(SubSeq(padded, (n - j) * LimbBits + 1,
                                            (n - j + 1) * LimbBits))
        B == Pow2(LimbBits)
        carry[j \in 1..(n + 1)] ==
            IF j = 1 THEN 0 ELSE (Limb(j - 1) * k + carry[j - 1]) \div B
        Digit(j) == (Limb(j) * k + carry[j]) % B
        RECURSIVE Join(_)
        Join(j) == IF j = 0 THEN NatToBits(carry[n + 1], LimbBits)
                   ELSE Join(j - 1) \o NatToBits(Digit(n - j + 1), LimbBits)
    IN  StripLeadingZeros(Join(n))

\* x * k as a Number, for a Number x >= 0 and a small integer k > 0
NumberTimes(x, k) ==
    IF x.mant = <<>> THEN x
    ELSE LET prod == MulBits(x.mant, k)
             drop == Len(prod) - SignificandBits
             kept == SubSeq(prod, 1, SignificandBits)
             lost == SubSeq(prod, SignificandBits + 1, Len(prod))
             sticky == \E i \in 2..Len(lost) : lost[i] = 1
             tail == IF drop = 0 \/ lost[1] = 0 THEN "down"
                     ELSE IF sticky THEN "up" ELSE "tie"
         IN  RoundToDouble(kept, x.exp + drop, tail)

\* Math.round(x) for a Number 0 <= x < 2^31
MathRound(x) ==
    IF x.mant = <<>> THEN 0
    ELSE LET frac == 0 - x.exp      \* number of bits after the binary point
             int == Len(x.mant) - frac
         IN  IF frac <= 0 THEN BitsToNat(x.mant) * Pow2(x.exp)
             ELSE IF int < 0 THEN 0
             ELSE BitsToNat(SubSeq(x.mant, 1, int)) + x.mant[int + 1]

\* Math.round((metRequirements / totalRequirements) * 100)
PercentFactor == 100

RoundedPercent(metRequirements, totalRequirements) ==
    MathRound(NumberTimes(NumberDivide(metRequirements, totalRequirements),
                          PercentFactor))

\* the largest number of requirements of a benefit of the model
MaxLongRequirements == 40

\* the scores of every met/total pair the model's benefits can produce,
\* computed once
ScoreTable ==
    [total \in 1..MaxLongRequirements |->
        [met \in 0..total |-> RoundedPercent(met, total)]]

----------------------------------------------------------------------------
(* calculateMatch                                                          *)

DefaultScore == 50
LikelyThreshold == 80
PossibleThreshold == 50

Indices(s) == [i \in 1..Len(s) |-> i]

\* the descriptions of the requirements at the picked indices, in order
Descriptions(requirements, picked) ==
    [k \in 1..Len(picked) |-> requirements[picked[k]].description]

matchScoreOf(metRequirements, totalRequirements) ==
    IF totalRequirements > 0
    THEN ScoreTable[totalRequirements][metRequirements]
    ELSE DefaultScore

\* a status that tests for "unknown" only when there are requirements
eligibilityStatusUnknownNeedsRequirements(missingCount, totalRequirements, matchScore) ==
    IF totalRequirements > 0 /\ missingCount = totalRequirements THEN "unknown"
    ELSE IF matchScore >= LikelyThreshold THEN "likely"
    ELSE IF matchScore >= PossibleThreshold THEN "possible"
    ELSE "unlikely"

\* a status whose thresholds are exclusive
eligibilityStatusStrictThresholds(missingCount, totalRequirements, matchScore) ==
    IF missingCount = totalRequirements THEN "unknown"
    ELSE IF matchScore > LikelyThreshold THEN "likely"
    ELSE IF matchScore > PossibleThreshold THEN "possible"
    ELSE "unlikely"

\* lines 119-129
eligibilityStatusOf(missingCount, totalRequirements, matchScore) ==
    IF missingCount = totalRequirements THEN "unknown"
    ELSE IF matchScore >= LikelyThreshold THEN "likely"
    ELSE IF matchScore >= PossibleThreshold THEN "possible"
    ELSE "unlikely"

\* a scorer that lists every requirement that is not met as missing
\* information
calculateMatchUnmetAsMissing(p, b) ==
    LET requirements == b.eligibility.requirements
        totalRequirements == Len(requirements)
        result == [i \in 1..totalRequirements |-> checkRequirement(p, requirements[i])]
        IsMet(i) == result[i].met = Some(TRUE)
        IsMissing(i) == ~IsMet(i)
        matchedRequirements ==
            Descriptions(requirements, SelectSeq(Indices(requirements), IsMet))
        missingInfo ==
            Descriptions(requirements, SelectSeq(Indices(requirements), IsMissing))
        metRequirements == Cardinality({i \in 1..totalRequirements : IsMet(i)})
        matchScore == matchScoreOf(metRequirements, totalRequirements)
    IN  [matchScore |-> matchScore,
         eligibilityStatus |->
             eligibilityStatusOf(Len(missingInfo), totalRequirements, matchScore),
         matchedRequirements |-> matchedRequirements,
         missingInfo |-> missingInfo]

calculateMatch(p, b) ==
    LET requirements == b.eligibility.requirements
        totalRequirements == Len(requirements)
        result == [i \in 1..totalRequirements |-> checkRequirement(p, requirements[i])]
        IsMet(i) == result[i].met = Some(TRUE)
        IsMissing(i) == ~IsMet(i) /\ (result[i].met = Null \/ result[i].needsInfo)
        matchedRequirements ==
            Descriptions(requirements, SelectSeq(Indices(requirements), IsMet))
        missingInfo ==
            Descriptions(requirements, SelectSeq(Indices(requirements), IsMissing))
        metRequirements == Cardinality({i \in 1..totalRequirements : IsMet(i)})
        matchScore == matchScoreOf(metRequirements, totalRequirements)
    IN  [matchScore |-> matchScore,
         eligibilityStatus |->
             eligibilityStatusOf(Len(missingInfo), totalRequirements, matchScore),
         matchedRequirements |-> matchedRequirements,
         missingInfo |-> missingInfo]

----------------------------------------------------------------------------
(* matchBenefits                                                           *)

\* Array.prototype.sort is stable; with the comparator
\* (a, b) => b.matchScore - a.matchScore an element goes behind every
\* earlier element whose score is not lower
\* an insertion that puts an element in front of the elements it ties with
InsertBeforeTies(sorted, m) ==
    LET k == Cardinality({i \in 1..Len(sorted) : sorted[i].matchScore > m.matchScore})
    IN  SubSeq(sorted, 1, k) \o <<m>> \o SubSeq(sorted, k + 1, Len(sorted))

InsertByScore(sorted, m) ==
    LET k == Cardinality({i \in 1..Len(sorted) : sorted[i].matchScore >= m.matchScore})
    IN  SubSeq(sorted, 1, k) \o <<m>> \o SubSeq(sorted, k + 1, Len(sorted))

RECURSIVE SortByScore(_)
SortByScore(ms) ==
    IF ms = <<>> THEN <<>>
    ELSE InsertByScore(SortByScore(SubSeq(ms, 1, Len(ms) - 1)), ms[Len(ms)])

BenefitMatch(p, b) ==
    LET m == calculateMatch(p, b)
    IN  [benefit |-> b,
         matchScore |-> m.matchScore,
         eligibilityStatus |-> m.eligibilityStatus,
         matchedRequirements |-> m.matchedRequirements,
         missingInfo |-> m.missingInfo]

\* a matcher that leaves out the benefits that score 0
matchBenefitsDroppingZeroScores(p, allBenefits) ==
    LET located == getBenefitsForLocation(p.zipCode, allBenefits)
        Scores(m) == m.matchScore > 0
    IN  SortByScore(SelectSeq([i \in 1..Len(located) |-> BenefitMatch(p, located[i])],
                              Scores))

matchBenefits(p, allBenefits) ==
    LET located == getBenefitsForLocation(p.zipCode, allBenefits)
    IN  SortByScore([i \in 1..Len(located) |-> BenefitMatch(p, located[i])])

----------------------------------------------------------------------------
(* groupBenefitsByCategory                                                 *)

\* a step that puts the match in front of its group
AddToGroupInFront(entries, m) ==
    LET category == m.benefit.category
    IN  IF \E i \in 1..Len(entries) : entries[i].key = category
        THEN [i \in 1..Len(entries) |->
                 IF entries[i].key = category
                 THEN [key |-> category, value |-> <<m>> \o entries[i].value]
                 ELSE entries[i]]
        ELSE Append(entries, [key |-> category, value |-> <<m>>])

\* one step of the loop: groups is the object built so far, as its entries
\* in insertion order
AddToGroup(entries, m) ==
    LET category == m.benefit.category
    IN  IF \E i \in 1..Len(entries) : entries[i].key = category
        THEN [i \in 1..Len(entries) |->
                 IF entries[i].key = category
                 THEN [key |-> category, value |-> Append(entries[i].value, m)]
                 ELSE entries[i]]
        ELSE Append(entries, [key |-> category, value |-> <<m>>])

RECURSIVE groupBenefitsByCategory(_)
groupBenefitsByCategory(ms) ==
    IF ms = <<>> THEN <<>>
    ELSE AddToGroup(groupBenefitsByCategory(SubSeq(ms, 1, Len(ms) - 1)), ms[Len(ms)])

----------------------------------------------------------------------------
(* Data: records of the schema, and the two catalogs of the repository     *)

NoCriteria == Undefined

EmptyCriteria ==
    [minServiceDays |-> Undefined, dischargeTypes |-> Undefined,
     minDisabilityRating |-> Undefined, requiresSpouse |-> Undefined,
     maxIncome |-> Undefined]

MinServiceDays(n) == Some([EmptyCriteria EXCEPT !.minServiceDays = Some(n)])
DischargeTypes(ts) == Some([EmptyCriteria EXCEPT !.dischargeTypes = Some(ts)])
MinDisabilityRating(n) == Some([EmptyCriteria EXCEPT !.minDisabilityRating = Some(n)])
RequiresSpouse(f) == Some([EmptyCriteria EXCEPT !.requiresSpouse = Some(f)])
MaxIncome(n) == Some([EmptyCriteria EXCEPT !.maxIncome = Some(n)])
ServiceCriteria(ts, n) ==
    Some([EmptyCriteria EXCEPT !.dischargeTypes = Some(ts), !.minServiceDays = Some(n)])

Requirement(type, description, criteria) ==
    [type |-> type, description |-> description, criteria |-> criteria]

Coverage(states, counties, cities, zipCodes) ==
    [states |-> states, counties |-> counties, cities |-> cities,
     zipCodes |-> zipCodes]

NoCoverage == Coverage(<<>>, <<>>, <<>>, <<>>)

Benefit(id, category, level, coverage, requirements) ==
    [id |-> id, category |-> category, level |-> level, coverage |-> coverage,
     eligibility |-> [requirements |-> requirements]]

NotDishonorable == <<"honorable", "general", "other-than-honorable">>

federalBenefits ==
    << Benefit("va-healthcare", "healthcare", "federal", NoCoverage,
           << Requirement("service", "Served on active duty (not just training)",
                          MinServiceDays(1)),
              Requirement("service", "Discharged under conditions other than dishonorable",
                          DischargeTypes(NotDishonorable)) >>),
       Benefit("va-disability", "disability", "federal", NoCoverage,
           << Requirement("service",
                          "Served on active duty, active duty for training, or inactive duty training",
                          NoCriteria),
              Requirement("disability",
                          "Have a service-connected disability (injury or illness caused or worsened by service)",
                          NoCriteria),
              Requirement("service", "Discharged under other than dishonorable conditions",
                          DischargeTypes(NotDishonorable)) >>),
       Benefit("gi-bill-post-911", "education", "federal", NoCoverage,
           << Requirement("service",
                          "Served at least 90 aggregate days on active duty after Sept 10, 2001",
                          MinServiceDays(90)),
              Requirement("service", "Discharged honorably",
                          DischargeTypes(<<"honorable">>)) >>),
       Benefit("va-home-loan", "housing", "federal", NoCoverage,
           << Requirement("service",
                          "Meet minimum active duty service requirements (varies by era)",
                          MinServiceDays(90)),
              Requirement("service", "Discharged under other than dishonorable conditions",
                          NoCriteria),
              Requirement("other", "Meet lender credit and income requirements",
                          NoCriteria) >>) >>

Texas == Coverage(<<"TX">>, <<>>, <<>>, <<>>)

texasBenefits ==
    << Benefit("tx-hazlewood", "education", "state", Texas,
           << Requirement("service",
                          "Texas resident at time of entry into service, or resident for 12+ months",
                          NoCriteria),
              Requirement("service", "At least 181 days of active duty service",
                          MinServiceDays(181)),
              Requirement("service", "Honorable discharge or separation",
                          DischargeTypes(<<"honorable">>)),
              Requirement("other", "Not in default on any education loans",
                          NoCriteria) >>),
       Benefit("tx-property-tax", "financial", "state", Texas,
           << Requirement("disability", "Have a VA disability rating of 10% or higher",
                          MinDisabilityRating(10)),
              Requirement("other", "Own property in Texas as your residence",
                          NoCriteria) >>),
       Benefit("tx-veterans-land-board", "housing", "state", Texas,
           << Requirement("service",
                          "At least 90 days active duty (unless discharged for service-connected disability)",
                          MinServiceDays(90)),
              Requirement("service", "Honorable discharge", DischargeTypes(<<"honorable">>)),
              Requirement("other", "Texas resident or intend to live in Texas",
                          NoCriteria) >>),
       Benefit("tx-veteran-license-plates", "financial", "state", Texas,
           << Requirement("service",
                          "Proof of military service or specific award/decoration",
                          NoCriteria) >>) >>

----------------------------------------------------------------------------
(* Inputs.  The engine's functions are pure: a behaviour picks a profile   *)
(* and a catalog, and applies one of the functions to them.  The inputs    *)
(* are drawn from four families, each varying what one component reads.    *)

MaxCatalog == 3         \* longest catalog built from a pool
MaxRequirements == 3    \* longest requirement list built from a pool

Profile(zipCode, disabilityRating, dischargeStatus, yearsOfService, incomeLevel, hasSpouse) ==
    [zipCode |-> zipCode, disabilityRating |-> disabilityRating,
     dischargeStatus |-> dischargeStatus, yearsOfService |-> yearsOfService,
     incomeLevel |-> incomeLevel, hasSpouse |-> hasSpouse]

\* only zipCode given
ZipOnly(zipCode) ==
    Profile(zipCode, Undefined, Undefined, Undefined, Undefined, Undefined)

\* the profile of the documented scenario
ScenarioProfile(zipCode) ==
    Profile(zipCode, Some(80), Some("honorable"), Some(5), Undefined, Undefined)

Optional(S) == {Undefined} \cup {Some(v) : v \in S}

\* three resolvable postal codes, two unknown ones, and one that names a
\* member every object inherits
Zips == {"78701", "78205", "77001", "99999", "", "constructor"}

(* 1. location: every postal code against catalogs that vary coverage *)

Coverages ==
    {Coverage(st, co, ci, zi) :
        st \in {<<>>, <<"TX">>, <<"CA">>},
        co \in {<<>>, <<"48453">>},
        ci \in {<<>>, <<"Austin, TX">>, <<"undefined, undefined">>},
        zi \in {<<>>, <<"78701", "99999", "constructor">>}}

AnyRequirement == Requirement("other", "other", NoCriteria)

CoverageBenefits ==
    {Benefit("b", "housing", level, c, <<AnyRequirement>>) :
        level \in {"federal", "city"}, c \in Coverages}

LocationPool ==
    {Benefit("fed", "healthcare", "federal", NoCoverage, <<AnyRequirement>>),
     Benefit("tx", "education", "state", Texas, <<AnyRequirement>>),
     Benefit("ca", "housing", "state", Coverage(<<"CA">>, <<>>, <<>>, <<>>),
             <<AnyRequirement>>),
     Benefit("any", "family", "nonprofit", NoCoverage, <<AnyRequirement>>)}

LocationInputs ==
    {[profile |-> ZipOnly(z), benefits |-> c] :
        z \in Zips,
        c \in {<<b>> : b \in CoverageBenefits} \cup SeqsUpTo(LocationPool, MaxCatalog)}

(* 2. requirements: every profile against every single requirement *)

RequirementTypes == {"service", "disability", "income", "age", "family", "other"}

CriteriaPool ==
    {NoCriteria, Some(EmptyCriteria),
     MinDisabilityRating(0), MinDisabilityRating(10),
     MinServiceDays(181), MinServiceDays(3650),
     DischargeTypes(<<>>), DischargeTypes(<<"honorable">>),
     RequiresSpouse(TRUE), RequiresSpouse(FALSE), MaxIncome(30000)}
    \cup {ServiceCriteria(ts, n) : ts \in {<<>>, <<"honorable">>}, n \in {181, 3650}}

RequirementPool ==
    {Requirement(t, "requirement", c) : t \in RequirementTypes, c \in CriteriaPool}

RequirementProfiles ==
    {Profile("78701", dr, ds, ys, il, hs) :
        dr \in Optional({0, 80}), ds \in Optional({"honorable", "dishonorable"}),
        ys \in Optional({0, 5}), il \in Optional({"low"}),
        hs \in Optional(BOOLEAN)}

RequirementInputs ==
    {[profile |-> p, benefits |-> <<Benefit("one", "family", "state", Texas, <<r>>)>>] :
        p \in RequirementProfiles, r \in RequirementPool}

(* 3. scoring: requirement lists of every length, short ones from a pool  *)
(*    of kinds, long ones as k requirements that are met and n - k that   *)
(*    are not met or not known                                            *)

ScoringRequirements ==
    {Requirement("disability", "rating", MinDisabilityRating(10)),
     Requirement("service", "discharge", DischargeTypes(<<"honorable">>)),
     Requirement("family", "spouse", RequiresSpouse(TRUE)),
     Requirement("income", "income", MaxIncome(30000)),
     Requirement("other", "other", NoCriteria)}

ScoringProfiles ==
    {ZipOnly("78701"), ScenarioProfile("78701"),
     Profile("78701", Some(0), Some("dishonorable"), Some(0), Some("low"), Some(FALSE)),
     Profile("78701", Some(80), Undefined, Undefined, Undefined, Some(TRUE)),
     Profile("78701", Some(80), Some("dishonorable"), Some(5), Some("low"), Some(FALSE))}

LongRequirements(n, k, rest) ==
    [i \in 1..n |->
        IF i <= k THEN Requirement("disability", "met", MinDisabilityRating(10))
        ELSE IF rest = "unmet"
             THEN Requirement("disability", "unmet", MinDisabilityRating(100))
             ELSE Requirement("other", "unknown", NoCriteria)]

ScoringInputs ==
    {[profile |-> p, benefits |-> <<Benefit("short", "financial", "federal", NoCoverage, rs)>>] :
        p \in ScoringProfiles, rs \in SeqsUpTo(ScoringRequirements, MaxRequirements)}
    \cup
    {[profile |-> ScenarioProfile("78701"),
      benefits |-> <<Benefit("long", "financial", "federal", NoCoverage,
                             LongRequirements(nk[1], nk[2], rest))>>] :
        nk \in {x \in (1..MaxLongRequirements) \X (0..MaxLongRequirements) :
                    x[1] > MaxRequirements /\ x[2] <= x[1]},
        rest \in {"unmet", "unknown"}}

(* 4. pipeline: the repository's catalogs, and every short catalog over a *)
(*    pool of their benefits and a benefit without requirements           *)

FederalAndTexas == federalBenefits \o texasBenefits

PipelinePool ==
    {federalBenefits[1], federalBenefits[2], texasBenefits[1], texasBenefits[2],
     texasBenefits[4],
     Benefit("open", "burial", "nonprofit", NoCoverage, <<>>)}

PipelineProfiles ==
    {ZipOnly("78701"), ZipOnly("99999"), ScenarioProfile("78701"),
     ScenarioProfile("99999"), ScenarioProfile("constructor")}

PipelineInputs ==
    {[profile |-> p, benefits |-> c] :
        p \in PipelineProfiles,
        c \in {FederalAndTexas, texasBenefits \o federalBenefits}
              \cup SeqsUpTo(PipelinePool, MaxCatalog)}

Inputs == LocationInputs \cup RequirementInputs \cup ScoringInputs \cup PipelineInputs

----------------------------------------------------------------------------
(* The state machine                                                       *)

NotCalled == Undefined

Init ==
    /\ \E in \in Inputs : profile = in.profile /\ benefits = in.benefits
    /\ called = "none"
    /\ req = NotCalled /\ checked = NotCalled
    /\ benefit = NotCalled /\ match = NotCalled
    /\ locationBenefits = <<>> /\ matches = <<>> /\ groups = <<>>

CheckRequirement(i, j) ==
    /\ called = "none"
    /\ called' = "checkRequirement"
    /\ req' = Some(benefits[i].eligibility.requirements[j])
    /\ checked' = Some(checkRequirement(profile, benefits[i].eligibility.requirements[j]))
    /\ UNCHANGED <<profile, benefits, benefit, match, locationBenefits, matches, groups>>

CalculateMatch(i) ==
    /\ called = "none"
    /\ called' = "calculateMatch"
    /\ benefit' = Some(benefits[i])
    /\ match' = Some(calculateMatch(profile, benefits[i]))
    /\ UNCHANGED <<profile, benefits, req, checked, locationBenefits, matches, groups>>

GetBenefitsForLocation ==
    /\ called = "none"
    /\ called' = "getBenefitsForLocation"
    /\ locationBenefits' = getBenefitsForLocation(profile.zipCode, benefits)
    /\ UNCHANGED <<profile, benefits, req, checked, benefit, match, matches, groups>>

MatchBenefits ==
    /\ called = "none"
    /\ called' = "matchBenefits"
    /\ matches' = matchBenefits(profile, benefits)
    /\ UNCHANGED <<profile, benefits, req, checked, benefit, match, locationBenefits, groups>>

\* the caller groups the matches it got from matchBenefits
GroupBenefitsByCategory ==
    /\ called = "matchBenefits"
    /\ called' = "groupBenefitsByCategory"
    /\ groups' = groupBenefitsByCategory(matches)
    /\ UNCHANGED <<profile, benefits, req, checked, benefit, match, locationBenefits, matches>>

Next ==
    \/ \E i \in 1..Len(benefits) :
          \E j \in 1..Len(benefits[i].eligibility.requirements) : CheckRequirement(i, j)
    \/ \E i \in 1..Len(benefits) : CalculateMatch(i)
    \/ GetBenefitsForLocation
    \/ MatchBenefits
    \/ GroupBenefitsByCategory

Spec == Init /\ [][Next]_vars

----------------------------------------------------------------------------
(* Properties                                                              *)

\* out is the subsequence of in at the indices in S, in increasing order
IsSubsequenceAt(out, in, S) ==
    /\ Len(out) = Cardinality(S)
    /\ \A i \in S : out[Cardinality({k \in S : k <= i})] = in[i]

FederalIndices(catalog) == {i \in 1..Len(catalog) : catalog[i].level = "federal"}

\* the string "{city}, {stateCode}" of each resolvable postal code
CityAndState(zip) ==
    CASE zip = "78701" -> "Austin, TX"
      [] zip = "78205" -> "San Antonio, TX"
      [] zip = "77001" -> "Houston, TX"

\* the benefit is federal, or each non-empty coverage dimension holds the
\* location's value
InScope(b, zip) ==
    LET location == sampleData(zip)
        Holds(dimension, value) == dimension = <<>> \/ value \in Range(dimension)
    IN  \/ b.level = "federal"
        \/ /\ Holds(b.coverage.states, The(location.stateCode))
           /\ Holds(b.coverage.counties, The(location.countyFips))
           /\ Holds(b.coverage.cities, CityAndState(zip))
           /\ Holds(b.coverage.zipCodes, zip)

\* C1: for a postal code the resolver resolves, getBenefitsForLocation
\* returns exactly the benefits in scope (federal, or every non-empty
\* coverage dimension holds the location's value), in catalog order
C1_LocationFilter ==
    (called = "getBenefitsForLocation" /\ profile.zipCode \in SampleZips) =>
        IsSubsequenceAt(locationBenefits, benefits,
            {i \in 1..Len(benefits) : InScope(benefits[i], profile.zipCode)})

\* a three-benefit catalog from which a state benefit of another state is
\* dropped and two benefits that are not federal are kept
C1_Witness ==
    /\ called = "getBenefitsForLocation"
    /\ profile.zipCode \in SampleZips
    /\ Len(benefits) = 3 /\ Len(locationBenefits) = 2
    /\ benefits[2].coverage.states = <<"CA">>
    /\ \A i \in 1..2 : locationBenefits[i].level # "federal"

\* a single dimension that is present and fails excludes the benefit
C1_WitnessOneDimension ==
    /\ called = "getBenefitsForLocation"
    /\ profile.zipCode = "78205"
    /\ Len(benefits) = 1 /\ locationBenefits = <<>>
    /\ benefits[1].coverage.states = <<"TX">>
    /\ benefits[1].coverage.counties = <<>>
    /\ benefits[1].coverage.cities = <<>>
    /\ benefits[1].coverage.zipCodes # <<>>

\* C2: for a postal code that is not a key of the resolver's table,
\* getBenefitsForLocation returns exactly the federal benefits, in catalog
\* order, and matchBenefits holds matches for federal benefits only
C2_UnresolvedFederalOnly ==
    profile.zipCode \notin SampleZips =>
        /\ called = "getBenefitsForLocation" =>
               IsSubsequenceAt(locationBenefits, benefits, FederalIndices(benefits))
        /\ called = "matchBenefits" =>
               \A k \in 1..Len(matches) : matches[k].benefit.level = "federal"

RequirementsOf(b) == b.eligibility.requirements

\* the scorer's four outputs, of a calculateMatch result or of a match
Outcome(m) ==
    [matchScore |-> m.matchScore, eligibilityStatus |-> m.eligibilityStatus,
     matchedRequirements |-> m.matchedRequirements, missingInfo |-> m.missingInfo]

Neutral ==
    [matchScore |-> 50, eligibilityStatus |-> "unknown",
     matchedRequirements |-> <<>>, missingInfo |-> <<>>]

\* C3: a benefit without requirements gets matchScore 50, status
\* 'unknown' and empty matchedRequirements and missingInfo, from
\* calculateMatch and in the matches of matchBenefits
C3_NoRequirementsUnknown ==
    /\ (called = "calculateMatch" /\ RequirementsOf(The(benefit)) = <<>>) =>
           Outcome(The(match)) = Neutral
    /\ called = "matchBenefits" =>
           \A k \in 1..Len(matches) :
               RequirementsOf(matches[k].benefit) = <<>> => Outcome(matches[k]) = Neutral

C3_Witness ==
    /\ called = "matchBenefits"
    /\ Len(matches) = 3
    /\ \E k \in 1..Len(matches) : RequirementsOf(matches[k].benefit) = <<>>
    /\ \E k \in 1..Len(matches) : matches[k].eligibilityStatus = "possible"

C3_WitnessCalculateMatch ==
    /\ called = "calculateMatch" /\ RequirementsOf(The(benefit)) = <<>>
    /\ profile.disabilityRating # Undefined

\* the status the ordered rules give
StatusInOrder(m, total) ==
    /\ m.eligibilityStatus = "unknown" <=> Len(m.missingInfo) = total
    /\ m.eligibilityStatus = "likely" <=>
           (Len(m.missingInfo) # total /\ m.matchScore >= 80)
    /\ m.eligibilityStatus = "possible" <=>
           (Len(m.missingInfo) # total /\ m.matchScore < 80 /\ m.matchScore >= 50)
    /\ m.eligibilityStatus = "unlikely" <=>
           (Len(m.missingInfo) # total /\ m.matchScore < 50)

AllIndeterminate(p, b) ==
    \A i \in 1..Len(RequirementsOf(b)) :
        checkRequirement(p, RequirementsOf(b)[i]).met = Null

\* C4: eligibilityStatus is 'unknown' if missingInfo has as many entries as
\* there are requirements, else 'likely' from 80, else 'possible' from 50,
\* else 'unlikely'; a benefit whose requirements are all indeterminate is
\* 'unknown'
C4_StatusOrder ==
    /\ called = "calculateMatch" =>
           /\ StatusInOrder(The(match), Len(RequirementsOf(The(benefit))))
           /\ AllIndeterminate(profile, The(benefit)) =>
                  The(match).eligibilityStatus = "unknown"
    /\ called = "matchBenefits" =>
           \A k \in 1..Len(matches) :
               /\ StatusInOrder(matches[k], Len(RequirementsOf(matches[k].benefit)))
               /\ AllIndeterminate(profile, matches[k].benefit) =>
                      matches[k].eligibilityStatus = "unknown"

\* one result holding all four statuses, the scores 80.. and 50 among them
C4_Witness ==
    /\ called = "matchBenefits"
    /\ {matches[k].eligibilityStatus : k \in 1..Len(matches)} =
           {"unknown", "likely", "possible", "unlikely"}
    /\ \E k \in 1..Len(matches) : matches[k].matchScore = 50
    /\ \E k \in 1..Len(matches) :
           /\ RequirementsOf(matches[k].benefit) # <<>>
           /\ Len(matches[k].missingInfo) = Len(RequirementsOf(matches[k].benefit))

Indeterminate == [met |-> Null, needsInfo |-> TRUE]

\* the number of requirements of b that p is evaluated to meet
MetCount(p, b) ==
    Cardinality({i \in 1..Len(RequirementsOf(b)) :
                    checkRequirement(p, RequirementsOf(b)[i]).met = Some(TRUE)})

\* C5: with requirements, matchScore is 100 * metCount / totalRequirements
\* rounded to the nearest integer, halves up; without, it is 50; it is an
\* integer in [0, 100]
C5_ScoreRoundsHalfUp ==
    called = "calculateMatch" =>
        LET total == Len(RequirementsOf(The(benefit)))
            met == MetCount(profile, The(benefit))
            score == The(match).matchScore
        IN  /\ total > 0 => score = (200 * met + total) \div (2 * total)
            /\ total = 0 => score = 50
            /\ score \in 0..100

\* C6: the matches are in non-increasing order of matchScore, and matches
\* of equal score are in the order of their benefits in the output of
\* getBenefitsForLocation
C6_SortedAndStable ==
    called = "matchBenefits" =>
        LET located == getBenefitsForLocation(profile.zipCode, benefits)
        IN  /\ Len(matches) = Len(located)
            /\ \E from \in Permutations(1..Len(located)) :
                  /\ \A k \in 1..Len(matches) : matches[k].benefit = located[from[k]]
                  /\ \A k, l \in 1..Len(matches) :
                        k < l =>
                          \/ matches[k].matchScore > matches[l].matchScore
                          \/ /\ matches[k].matchScore = matches[l].matchScore
                             /\ from[k] < from[l]

\* the sort moves a higher score to the front and keeps two tied benefits
\* in catalog order
C6_Witness ==
    /\ called = "matchBenefits"
    /\ Len(benefits) = 3 /\ Len(matches) = 3
    /\ matches[1].benefit = benefits[2]
    /\ matches[2].benefit = benefits[1]
    /\ matches[3].benefit = benefits[3]
    /\ matches[2].matchScore = matches[3].matchScore
    /\ matches[2].benefit # matches[3].benefit

\* C7: an income requirement is evaluated (null, true) for every profile
\* and criteria; it is never counted as met and its description is in
\* missingInfo
C7_IncomeIndeterminate ==
    /\ (called = "checkRequirement" /\ The(req).type = "income") =>
           The(checked) = Indeterminate
    /\ called = "calculateMatch" =>
           LET requirements == RequirementsOf(The(benefit))
               income == {i \in 1..Len(requirements) : requirements[i].type = "income"}
           IN  /\ Len(The(match).matchedRequirements)
                      <= Len(requirements) - Cardinality(income)
               /\ Len(The(match).missingInfo) >= Cardinality(income)
               /\ \A i \in income :
                      /\ requirements[i].description \in Range(The(match).missingInfo)
                      /\ requirements[i].description
                             \notin Range(The(match).matchedRequirements)

C7_Witness ==
    /\ called = "checkRequirement"
    /\ The(req).type = "income"
    /\ The(req).criteria # Undefined
    /\ The(The(req).criteria).maxIncome # Undefined
    /\ profile.incomeLevel = Some("low")

C7_WitnessCalculateMatch ==
    /\ called = "calculateMatch"
    /\ profile.incomeLevel = Some("low")
    /\ Len(RequirementsOf(The(benefit))) = 2
    /\ \A i \in 1..2 : RequirementsOf(The(benefit))[i].type = "income"

Scenario ==
    /\ profile = ScenarioProfile("78701")
    /\ benefits = FederalAndTexas

\* C8: in the documented scenario the rating requirement of tx-property-tax
\* is met, the disability requirement of va-disability is (null, true), and
\* both benefits are matched with a score strictly between 0 and 100, some
\* requirements met and some needing information
C8_Scenario ==
    Scenario =>
        /\ called = "checkRequirement" =>
               /\ The(req) = RequirementsOf(texasBenefits[2])[1] =>
                      The(checked).met = Some(TRUE)
               /\ The(req) = RequirementsOf(federalBenefits[2])[2] =>
                      The(checked) = Indeterminate
        /\ called = "matchBenefits" =>
               \A id \in {"tx-property-tax", "va-disability"} :
                   \E k \in 1..Len(matches) :
                       /\ matches[k].benefit.id = id
                       /\ matches[k].matchScore > 0 /\ matches[k].matchScore < 100
                       /\ matches[k].matchedRequirements # <<>>
                       /\ matches[k].missingInfo # <<>>

C8_Witness ==
    /\ Scenario /\ called = "matchBenefits"
    /\ \E k \in 1..Len(matches) :
           matches[k].benefit.id = "tx-property-tax" /\ matches[k].matchScore = 50
    /\ \E k \in 1..Len(matches) :
           matches[k].benefit.id = "va-disability" /\ matches[k].matchScore = 33

C8_WitnessRequirement ==
    /\ Scenario /\ called = "checkRequirement"
    /\ The(req) = RequirementsOf(texasBenefits[2])[1]

CategoriesOf(ms) == {ms[k].benefit.category : k \in 1..Len(ms)}

FirstSeen(ms, category) ==
    CHOOSE k \in 1..Len(ms) :
        /\ ms[k].benefit.category = category
        /\ \A l \in 1..(k - 1) : ms[l].benefit.category # category

\* C9: the groups' keys are the categories of the input in first-seen
\* order, and each value is the subsequence of the input matches of that
\* category, in input order
C9_GroupsPartition ==
    called = "groupBenefitsByCategory" =>
        /\ {groups[g].key : g \in 1..Len(groups)} = CategoriesOf(matches)
        /\ Len(groups) = Cardinality(CategoriesOf(matches))
        /\ \A g, h \in 1..Len(groups) :
               g < h => FirstSeen(matches, groups[g].key) < FirstSeen(matches, groups[h].key)
        /\ \A g \in 1..Len(groups) :
               /\ groups[g].value # <<>>
               /\ IsSubsequenceAt(groups[g].value, matches,
                      {k \in 1..Len(matches) : matches[k].benefit.category = groups[g].key})
        /\ matches = <<>> => groups = <<>>
        /\ Len(matches) = 1 => (Len(groups) = 1 /\ groups[1].value = matches)

\* two matches of one category with a match of another between them
C9_Witness ==
    /\ called = "groupBenefitsByCategory"
    /\ Len(matches) = 3 /\ Len(groups) = 2
    /\ matches[1].benefit.category = matches[3].benefit.category
    /\ matches[1] # matches[3]
    /\ groups[1].value = <<matches[1], matches[3]>>
    /\ groups[2].value = <<matches[2]>>

C9_WitnessEmpty ==
    called = "groupBenefitsByCategory" /\ matches = <<>> /\ benefits # <<>>

\* C10: for a profile with only zipCode, checkRequirement returns
\* (null, true) for every requirement
C10_AbsentFieldsIndeterminate ==
    (called = "checkRequirement" /\ profile = ZipOnly(profile.zipCode)) =>
        The(checked) = Indeterminate

C10_Witness ==
    /\ called = "checkRequirement" /\ profile = ZipOnly(profile.zipCode)
    /\ The(req).type = "service"
    /\ The(req).criteria # Undefined
    /\ The(The(req).criteria).minServiceDays # Undefined
    /\ The(The(req).criteria).dischargeTypes # Undefined

\* C11: checkRequirement gives a determinate verdict only for a requirement
\* with criteria of type 'disability', 'service' or 'family'; without
\* criteria, and for the types 'age' and 'other', it gives (null, true);
\* needsInfo is true exactly when met is null
C11_DeterminateOnlyWhenCheckable ==
    called = "checkRequirement" =>
        /\ The(checked).met # Null =>
               /\ The(req).criteria # Undefined
               /\ The(req).type \in {"disability", "service", "family"}
        /\ The(req).criteria = Undefined => The(checked) = Indeterminate
        /\ The(req).type \in {"age", "other"} => The(checked) = Indeterminate
        /\ The(checked).needsInfo <=> The(checked).met = Null

\* an 'age' requirement whose criteria and profile would decide a
\* disability requirement
C11_Witness ==
    /\ called = "checkRequirement"
    /\ The(req).type = "age"
    /\ The(req).criteria = MinDisabilityRating(10)
    /\ profile.disabilityRating = Some(80)
    /\ The(checked) = Indeterminate

\* a disability requirement without criteria, the rating known
C11_WitnessNoCriteria ==
    /\ called = "checkRequirement"
    /\ The(req).type = "disability"
    /\ The(req).criteria = Undefined
    /\ profile.disabilityRating = Some(80)

Verdict(met) == [met |-> Some(met), needsInfo |-> FALSE]

C12_WitnessZeroYears ==
    /\ called = "checkRequirement"
    /\ The(req).type = "service"
    /\ The(req).criteria = ServiceCriteria(<<"honorable">>, 181)
    /\ profile.dischargeStatus = Undefined
    /\ profile.yearsOfService = Some(0)
    /\ The(checked) = Verdict(FALSE)

\* C13: for a 'family' requirement with criteria, requiresSpouse being set
\* meaning that the flag is true: set and hasSpouse unknown gives
\* (null, true); set and hasSpouse known gives met = (hasSpouse = true)
\* with needsInfo false; not set gives (null, true) whatever hasSpouse is
C13_FamilyLadder ==
    (called = "checkRequirement" /\ The(req).type = "family"
        /\ The(req).criteria # Undefined) =>
        LET criteria == The(The(req).criteria)
            set == criteria.requiresSpouse = Some(TRUE)
        IN  /\ (set /\ profile.hasSpouse = Undefined) => The(checked) = Indeterminate
            /\ (set /\ profile.hasSpouse # Undefined) =>
                   The(checked) = Verdict(The(profile.hasSpouse) = TRUE)
            /\ ~set => The(checked) = Indeterminate

\* a spouse is required and the profile says there is none: not met
C13_Witness ==
    /\ called = "checkRequirement"
    /\ The(req).type = "family"
    /\ The(req).criteria = RequiresSpouse(TRUE)
    /\ profile.hasSpouse = Some(FALSE)
    /\ The(checked) = Verdict(FALSE)

\* no spouse is required: indeterminate although hasSpouse is known
C13_WitnessNotSet ==
    /\ called = "checkRequirement"
    /\ The(req).type = "family"
    /\ The(req).criteria = Some(EmptyCriteria)
    /\ profile.hasSpouse = Some(TRUE)
    /\ The(checked) = Indeterminate

\* C14: for a 'disability' requirement with criteria: an unknown
\* disabilityRating gives (null, true) even when minDisabilityRating is
\* set; a known rating and a set minDisabilityRating, 0 included, give
\* met = (rating >= minDisabilityRating) with needsInfo false, a rating of
\* 0 compared as the number 0; a known rating without minDisabilityRating
\* gives (null, true)
C14_DisabilityLadder ==
    (called = "checkRequirement" /\ The(req).type = "disability"
        /\ The(req).criteria # Undefined) =>
        LET criteria == The(The(req).criteria)
            known == profile.disabilityRating # Undefined
            set == criteria.minDisabilityRating # Undefined
        IN  /\ ~known => The(checked) = Indeterminate
            /\ (known /\ set) =>
                   The(checked) = Verdict(The(profile.disabilityRating)
                                              >= The(criteria.minDisabilityRating))
            /\ (known /\ ~set) => The(checked) = Indeterminate

\* a rating of 0 against a minimum of 0: met
C14_Witness ==
    /\ called = "checkRequirement"
    /\ The(req).type = "disability"
    /\ The(req).criteria = MinDisabilityRating(0)
    /\ profile.disabilityRating = Some(0)
    /\ The(checked) = Verdict(TRUE)

\* a rating of 0 against a minimum of 10: not met, and not indeterminate
C14_WitnessZeroRating ==
    /\ called = "checkRequirement"
    /\ The(req).type = "disability"
    /\ The(req).criteria = MinDisabilityRating(10)
    /\ profile.disabilityRating = Some(0)
    /\ The(checked) = Verdict(FALSE)

\* the rating is unknown and the minimum is set
C14_WitnessUnknownRating ==
    /\ called = "checkRequirement"
    /\ The(req).type = "disability"
    /\ The(req).criteria = MinDisabilityRating(10)
    /\ profile.disabilityRating = Undefined
    /\ The(checked) = Indeterminate

\* the indices of the requirements of b that p is evaluated to have met
\* as given
Evaluated(p, b, met) ==
    {i \in 1..Len(RequirementsOf(b)) : checkRequirement(p, RequirementsOf(b)[i]).met = met}

\* the lists and the score of m are those of the requirements of b as
\* evaluated for p
ListsFollowVerdicts(p, b, m) ==
    LET total == Len(RequirementsOf(b))
        descriptions == [i \in 1..total |-> RequirementsOf(b)[i].description]
    IN  /\ IsSubsequenceAt(m.matchedRequirements, descriptions, Evaluated(p, b, Some(TRUE)))
        /\ IsSubsequenceAt(m.missingInfo, descriptions, Evaluated(p, b, Null))
        /\ Len(m.matchedRequirements) + Len(m.missingInfo) <= total
        /\ total - (Len(m.matchedRequirements) + Len(m.missingInfo))
               = Cardinality(Evaluated(p, b, Some(FALSE)))
        /\ total > 0 => m.matchScore = ScoreTable[total][Len(m.matchedRequirements)]

\* C15: matchedRequirements holds the descriptions of exactly the
\* requirements evaluated met = true, missingInfo of exactly those
\* evaluated met = null, both in the requirements' order, and those
\* evaluated met = false are in neither; so the two lengths add up to the
\* number of requirements less the number not met, and the length of
\* matchedRequirements is the met count that the score is computed from
C15_ListsFollowVerdicts ==
    /\ called = "calculateMatch" =>
           ListsFollowVerdicts(profile, The(benefit), The(match))
    /\ called \in {"matchBenefits", "groupBenefitsByCategory"} =>
           \A k \in 1..Len(matches) :
               ListsFollowVerdicts(profile, matches[k].benefit, matches[k])

\* one requirement not met between one without a verdict and one met
C15_Witness ==
    /\ called = "calculateMatch"
    /\ Len(RequirementsOf(The(benefit))) = 3
    /\ Evaluated(profile, The(benefit), Null) = {1}
    /\ Evaluated(profile, The(benefit), Some(FALSE)) = {2}
    /\ Evaluated(profile, The(benefit), Some(TRUE)) = {3}
    /\ The(match).matchedRequirements = <<"rating">>
    /\ The(match).missingInfo = <<"income">>
    /\ The(match).matchScore = 33

\* two requirements without a verdict around one that is met
C15_WitnessOrder ==
    /\ called = "calculateMatch"
    /\ The(match).matchedRequirements = <<"rating">>
    /\ The(match).missingInfo = <<"other", "income">>

\* how often b occurs in the sequence s
Occurrences(s, b) == Cardinality({i \in 1..Len(s) : s[i] = b})

\* C16: matchBenefits returns one match per element of
\* getBenefitsForLocation(profile.zipCode, catalog): as many matches as
\* located benefits, the benefits of the matches being a permutation of
\* the located benefits (each occurs as often in both), and each match
\* carrying the score, status and lists calculateMatch gives its benefit
C16_OneMatchPerLocatedBenefit ==
    called \in {"matchBenefits", "groupBenefitsByCategory"} =>
        LET located == getBenefitsForLocation(profile.zipCode, benefits)
            matched == [k \in 1..Len(matches) |-> matches[k].benefit]
        IN  /\ Len(matches) = Len(located)
            /\ \A b \in Range(located) \cup Range(matched) :
                   Occurrences(matched, b) = Occurrences(located, b)
            /\ \A k \in 1..Len(matches) :
                   Outcome(matches[k]) = calculateMatch(profile, matches[k].benefit)

\* the two catalogs of the repository for an Austin profile: all eight
\* benefits are matched, one of them with score 0 and status 'unknown',
\* one with status 'unlikely'
C16_Witness ==
    /\ called = "matchBenefits"
    /\ benefits = texasBenefits \o federalBenefits
    /\ Len(matches) = 8
    /\ \E k \in 1..Len(matches) :
           matches[k].matchScore = 0 /\ matches[k].eligibilityStatus = "unknown"
    /\ \E k \in 1..Len(matches) : matches[k].eligibilityStatus = "unlikely"

\* a catalog with the same benefit twice: it is matched twice
C16_WitnessDuplicate ==
    /\ called = "matchBenefits"
    /\ Len(benefits) = 2 /\ benefits[1] = benefits[2]
    /\ Len(matches) = 2 /\ matches[1] = matches[2]
    /\ matches[1].matchScore = 0

=============================================================================
